---- MODULE Spec2Model ----
(***************************************************************************)
(* Verification model of appleseed plug-in models:                         *)
(*   - the voxel-based ambient occlusion surface shader                    *)
(*     (renderer/modeling/surfaceshader/voxelaosurfaceshader.cpp),         *)
(*   - the Oren-Nayar BRDF (renderer/modeling/bsdf/orennayarbrdf.cpp),     *)
(*   - the pixel variation AOV (renderer/modeling/aov/pixelvariationaov.cpp).*)
(*                                                                         *)
(* Numbers.  The code computes on float/double.  The model computes on     *)
(* exact integers in fixed units:                                          *)
(*   - lengths of the voxel shader are counted in 1/100000 of the unit of  *)
(*     AOVoxelTree::get_max_diag_length(), so that the factor (1 + 1.0e-5) *)
(*     of line 128 is the integer factor DiagScale;                        *)
(*   - spectral values and probability densities of the BRDF are counted   *)
(*     in units of 1/Pi, so that "x * RcpPi" is x;                         *)
(*   - channel values of the pixel variation image are exact fractions in  *)
(*     lowest terms.                                                       *)
(* Floating-point rounding, infinities and NaN are not modelled.           *)
(*                                                                         *)
(* Specifications:                                                         *)
(*   Spec        the voxel shader with default parameters, a scene that is *)
(*               edited between the frames, every thread rendering;        *)
(*   SpecStatic  the voxel shader with any parameters, a scene that is not *)
(*               edited, one thread rendering;                             *)
(*   SpecBRDF    the three methods of the BRDF called with any arguments;  *)
(*   SpecAnyScene   the voxel shader with default parameters and a scene   *)
(*               whose counters start at any VersionID;                    *)
(*   SpecInterrupt  the voxel shader when the tree construction or the     *)
(*               disk dump of on_frame_begin may throw;                    *)
(*   SpecAOV     post_process_image called on any variance image.          *)
(* Except in SpecInterrupt, on_frame_begin is taken to run to completion:  *)
(* no exception leaves it.                                                 *)
(***************************************************************************)
EXTENDS Integers, FiniteSets, Sequences, TLC

\* ------------------------------------------------------------------------
\* Bounds of the model.
\* ------------------------------------------------------------------------
MaxVersion == 1        \* scene version counters range over 0..MaxVersion
MaxThreshold == 1      \* supplied thresholds range over -1..MaxThreshold
MaxDiag == 1            \* max voxel diagonal of a tree ranges over 0..MaxDiag
NumThreads == 2         \* rendering threads calling evaluate in parallel
MaxSamples == 4         \* the "samples" parameter ranges over {0, 1, MaxSamples}
MaxCos == 2             \* cosines range over -MaxCos..MaxCos, in units of 1/MaxCos
MaxReflectance == 1     \* reflectance components range over -1..MaxReflectance
MaxMultiplier == 1      \* reflectance_multiplier ranges over -1..MaxMultiplier
MaxRoughness == 1       \* roughness is 0 or MaxRoughness
MaxTerm == 1            \* the direct Oren-Nayar factor ranges over -1..MaxTerm
MaxValue == 2           \* first-channel values of the image range over 0..MaxValue
ImageWidth == 2         \* pixels per row of the image
MaxPasses == 2          \* calls of post_process_image on one image

\* ------------------------------------------------------------------------
\* Program constants.
\* ------------------------------------------------------------------------
DefaultLowThreshold == 2
DefaultHighThreshold == 4
\* (1.0 + 1.0e-5), in units of 1.0e-5.
DiagScale == 100001
\* The VersionID the shader starts from (lines 76-77): the value one bump
\* before 0.
InvalidVersionID == -1

Threads == 1..NumThreads

VARIABLES
    \* --- the scene (host side) ---
    scene_geom,                     \* Scene::get_geometry_version_id()
    scene_inst,                     \* Scene::get_assembly_instances_version_id()
    scene_diag,                     \* max voxel diagonal a tree of this scene has
    \* --- VoxelAOSurfaceShader ---
    params,                         \* the ParamArray given to the constructor
    m_samples,
    m_low_threshold,
    m_high_threshold,
    m_output_filename,
    m_enable_diagnostics,
    m_last_geometry_version_id,
    m_last_asm_inst_version_id,
    m_voxel_tree,
    m_voxel_tree_intersector,
    m_diag_length,
    m_classic_threshold,
    m_fast_threshold,
    m_half_samples,
    \* --- control ---
    main_pc,                        \* position of the host's main thread
    ofb_entry,                      \* shader state at the last on_frame_begin call
    eval_pc,                        \* position of each rendering thread in evaluate
    eval_local,                     \* locals of each thread's evaluate call
    shading_result,                 \* what the evaluate that returned last wrote
    heap,                           \* allocation counters and the last disk dump
    \* --- OrenNayarBRDFImpl calls ---
    brdf_in,                        \* the arguments the BRDF is called with
    brdf_out,                       \* what each BRDF method returned and wrote
    \* --- PixelVariationAOV ---
    m_image,                        \* the AOV image, pixel -> Color3f
    crop_window,                    \* the frame's crop window (AABB2u)
    image_before,                   \* m_image when post_process_image was last called
    passes                          \* completed calls of post_process_image

aovars == <<scene_geom, scene_inst, scene_diag, params, m_samples,
            m_low_threshold, m_high_threshold, m_output_filename,
            m_enable_diagnostics, m_last_geometry_version_id,
            m_last_asm_inst_version_id, m_voxel_tree,
            m_voxel_tree_intersector, m_diag_length, m_classic_threshold,
            m_fast_threshold, m_half_samples, main_pc, ofb_entry, eval_pc,
            eval_local, shading_result, heap>>

brdfvars == <<brdf_in, brdf_out>>

pixvars == <<m_image, crop_window, image_before, passes>>

vars == <<aovars, brdfvars, pixvars>>

\* The configuration of the shader, constant after construction.
config == <<params, m_samples, m_low_threshold, m_high_threshold,
            m_output_filename, m_enable_diagnostics>>

\* What on_frame_begin may write.
rebuilt == <<m_last_geometry_version_id, m_last_asm_inst_version_id,
             m_voxel_tree, m_voxel_tree_intersector, m_diag_length,
             m_classic_threshold, m_fast_threshold, m_half_samples>>

scene == <<scene_geom, scene_inst, scene_diag>>

evals == <<eval_pc, eval_local, shading_result>>

\* ------------------------------------------------------------------------
\* VoxelAOSurfaceShader: construction.
\* ------------------------------------------------------------------------

\* ParamArray::get_optional / get_required with a default value.
get_param(p, name, default) ==
    IF name \in DOMAIN p THEN p[name] ELSE default

\* validate_thresholds replacing only the value that is out of order.
validate_thresholds_each(lo, hi) ==
    IF lo < 0 \/ hi < 0 \/ hi < lo
        THEN [low |-> IF lo < 0 THEN DefaultLowThreshold ELSE lo,
              high |-> IF hi < 0 \/ hi < lo THEN DefaultHighThreshold ELSE hi]
        ELSE [low |-> lo, high |-> hi]

\* The threshold pair extract_parameters stores for supplied values lo, hi.
validate_thresholds(lo, hi) ==
    IF lo < 0 \/ hi < 0 \/ hi < lo
        THEN [low |-> DefaultLowThreshold, high |-> DefaultHighThreshold]
        ELSE [low |-> lo, high |-> hi]

extract_parameters(p) ==
    validate_thresholds(
        get_param(p, "low_threshold", DefaultLowThreshold),
        get_param(p, "high_threshold", DefaultHighThreshold))

NullTree == [id |-> 0, geom |-> InvalidVersionID, inst |-> InvalidVersionID,
             max_diag |-> 0]
NullIntersector == [id |-> 0, tree |-> 0]
NoLocals == [tree |-> 0, fast |-> 0, clearance |-> 0]
NoResult == [mode |-> "none"]
NoCall == [changed |-> FALSE, geom_changed |-> FALSE, inst_changed |-> FALSE,
           tree |-> 0, isect |-> 0, unchanged_calls |-> 0]

ParamArrays ==
    UNION { [D -> -1..MaxThreshold] :
                D \in SUBSET {"low_threshold", "high_threshold"} }

\* Values an uninitialized double/size_t member may hold.
Indeterminate == {0, 3}

\* The state after construction (lines 71-80), for scene counters of V, a
\* ParamArray of P, a "samples" value of S, an "output_filename" of F and
\* an "enable_diagnostics" of D.
AOInitAt(V, P, S, F, D) ==
    /\ scene_geom \in V
    /\ scene_inst \in V
    /\ scene_diag \in 0..MaxDiag
    /\ params \in P
    /\ m_samples \in S
    /\ m_low_threshold = extract_parameters(params).low
    /\ m_high_threshold = extract_parameters(params).high
    /\ m_output_filename \in F
    /\ m_enable_diagnostics \in D
    /\ m_last_geometry_version_id = InvalidVersionID
    /\ m_last_asm_inst_version_id = InvalidVersionID
    /\ m_voxel_tree = NullTree
    /\ m_voxel_tree_intersector = NullIntersector
    /\ m_diag_length \in Indeterminate
    /\ m_classic_threshold \in Indeterminate
    /\ m_fast_threshold \in Indeterminate
    /\ m_half_samples \in Indeterminate
    /\ main_pc = "edit"
    /\ ofb_entry = NoCall
    /\ eval_pc = [t \in Threads |-> "idle"]
    /\ eval_local = [t \in Threads |-> NoLocals]
    /\ shading_result = NoResult
    /\ heap = [trees |-> 0, isects |-> 0, dumped |-> 0]

\* The same, for a scene that has not been edited yet.
AOInit(P, S, F, D) == AOInitAt({0}, P, S, F, D)

NotCalled == [called |-> FALSE]

BRDFIdle ==
    /\ brdf_in = <<>>
    /\ brdf_out = [evaluate |-> NotCalled, evaluate_pdf |-> NotCalled,
                   sample |-> NotCalled]

\* No image is post-processed.
AOVIdle ==
    /\ m_image = <<>>
    /\ crop_window = <<>>
    /\ image_before = <<>>
    /\ passes = 0

\* The shader is constructed with the default thresholds.
Init ==
    /\ AOInit({<<>>}, {MaxSamples}, {""}, {FALSE})
    /\ BRDFIdle
    /\ AOVIdle

\* The shader is constructed with any parameters.
InitStatic ==
    /\ AOInit(ParamArrays, {0, 1, MaxSamples}, {"", "voxels.obj"}, BOOLEAN)
    /\ BRDFIdle
    /\ AOVIdle

\* ------------------------------------------------------------------------
\* The scene, edited by the host between two frames.
\* ------------------------------------------------------------------------

ChangeGeometry ==
    /\ main_pc = "edit"
    /\ scene_geom < MaxVersion
    /\ scene_geom' = scene_geom + 1
    /\ scene_diag' \in 0..MaxDiag
    /\ UNCHANGED <<scene_inst, config, rebuilt, main_pc, ofb_entry, evals, heap>>
    /\ UNCHANGED <<brdfvars, pixvars>>

ChangeInstances ==
    /\ main_pc = "edit"
    /\ scene_inst < MaxVersion
    /\ scene_inst' = scene_inst + 1
    /\ scene_diag' \in 0..MaxDiag
    /\ UNCHANGED <<scene_geom, config, rebuilt, main_pc, ofb_entry, evals, heap>>
    /\ UNCHANGED <<brdfvars, pixvars>>

\* ------------------------------------------------------------------------
\* VoxelAOSurfaceShader::on_frame_begin, called by the main thread.
\* ------------------------------------------------------------------------

\* on_frame_begin rebuilding at every call.
versions_changed_always == TRUE

\* on_frame_begin rebuilding only when both counters have changed.
versions_changed_both ==
    /\ scene_geom # m_last_geometry_version_id
    /\ scene_inst # m_last_asm_inst_version_id

\* on_frame_begin looking at the geometry counter only.
versions_changed_geometry ==
    scene_geom # m_last_geometry_version_id

\* The condition of lines 103-104.
versions_changed ==
    \/ scene_geom # m_last_geometry_version_id
    \/ scene_inst # m_last_asm_inst_version_id

\* What a call of on_frame_begin finds: whether each counter differs from
\* the stored one, the tree and the intersector, and how many calls in a row
\* (counted up to 2) found both counters unchanged.
Entry ==
    LET g == scene_geom # m_last_geometry_version_id
        i == scene_inst # m_last_asm_inst_version_id
    IN  [changed |-> g \/ i,
         geom_changed |-> g,
         inst_changed |-> i,
         tree |-> m_voxel_tree.id,
         isect |-> m_voxel_tree_intersector.id,
         unchanged_calls |->
             IF g \/ i THEN 0
             ELSE IF ofb_entry.unchanged_calls < 2
                 THEN ofb_entry.unchanged_calls + 1 ELSE 2]

\* Lines 103-104 evaluate to false: the call returns at once.
OnFrameBeginUnchanged ==
    /\ main_pc = "edit"
    /\ ~versions_changed
    /\ main_pc' = "render"
    /\ ofb_entry' = Entry
    /\ UNCHANGED <<scene, config, rebuilt, evals, heap>>
    /\ UNCHANGED <<brdfvars, pixvars>>

\* Lines 103-107: the versions differ and are stored.
OnFrameBeginStoreVersions ==
    /\ main_pc = "edit"
    /\ versions_changed
    /\ m_last_geometry_version_id' = scene_geom
    /\ m_last_asm_inst_version_id' = scene_inst
    /\ main_pc' = "ofb_build"
    /\ ofb_entry' = Entry
    /\ UNCHANGED <<scene, config, m_voxel_tree, m_voxel_tree_intersector,
                   m_diag_length, m_classic_threshold, m_fast_threshold,
                   m_half_samples, evals, heap>>
    /\ UNCHANGED <<brdfvars, pixvars>>

\* new AOVoxelTree(scene, m_max_voxel_extent)
NewTree ==
    [id |-> heap.trees + 1, geom |-> scene_geom, inst |-> scene_inst,
     max_diag |-> scene_diag]

\* Lines 109-125: the tree is replaced (the old one is deleted) and dumped.
OnFrameBeginBuildTree ==
    /\ main_pc = "ofb_build"
    /\ m_voxel_tree' = NewTree
    /\ heap' = [heap EXCEPT !.trees = @ + 1,
                            !.dumped = IF m_output_filename # ""
                                           THEN NewTree.id ELSE @]
    /\ main_pc' = "ofb_thresholds"
    /\ UNCHANGED <<scene, config, m_last_geometry_version_id,
                   m_last_asm_inst_version_id, m_voxel_tree_intersector,
                   m_diag_length, m_classic_threshold, m_fast_threshold,
                   m_half_samples, ofb_entry, evals>>
    /\ UNCHANGED <<brdfvars, pixvars>>

diag_length_of(tree) == tree.max_diag * DiagScale

\* half_samples without the lower limit of lines 133-134.
half_samples_of_plain(samples) == samples \div 2

\* Lines 132-134.
half_samples_of(samples) ==
    IF samples \div 2 < 1 THEN 1 ELSE samples \div 2

\* Lines 127-134.
OnFrameBeginThresholds ==
    /\ main_pc = "ofb_thresholds"
    /\ m_diag_length' = diag_length_of(m_voxel_tree)
    /\ m_classic_threshold' = m_low_threshold * diag_length_of(m_voxel_tree)
    /\ m_fast_threshold' = m_high_threshold * diag_length_of(m_voxel_tree)
    /\ m_half_samples' = half_samples_of(m_samples)
    /\ main_pc' = "ofb_intersector"
    /\ UNCHANGED <<scene, config, m_last_geometry_version_id,
                   m_last_asm_inst_version_id, m_voxel_tree,
                   m_voxel_tree_intersector, ofb_entry, evals, heap>>
    /\ UNCHANGED <<brdfvars, pixvars>>

\* new AOVoxelTreeIntersector(*m_voxel_tree)
NewIntersector ==
    [id |-> heap.isects + 1, tree |-> m_voxel_tree.id]

\* on_frame_begin creating an intersector only when it has none.
OnFrameBeginIntersector_once ==
    /\ main_pc = "ofb_intersector"
    /\ m_voxel_tree_intersector' =
            IF m_voxel_tree_intersector.id = 0
                THEN [id |-> heap.isects + 1, tree |-> m_voxel_tree.id]
                ELSE m_voxel_tree_intersector
    /\ heap' = [heap EXCEPT !.isects = @ + 1]
    /\ main_pc' = "render"
    /\ UNCHANGED <<scene, config, m_last_geometry_version_id,
                   m_last_asm_inst_version_id, m_voxel_tree, m_diag_length,
                   m_classic_threshold, m_fast_threshold, m_half_samples,
                   ofb_entry, evals>>
    /\ UNCHANGED <<brdf_in, brdf_out, pixvars>>

\* Lines 136-139: the intersector is replaced, and the call returns.
OnFrameBeginIntersector ==
    /\ main_pc = "ofb_intersector"
    /\ m_voxel_tree_intersector' = NewIntersector
    /\ heap' = [heap EXCEPT !.isects = @ + 1]
    /\ main_pc' = "render"
    /\ UNCHANGED <<scene, config, m_last_geometry_version_id,
                   m_last_asm_inst_version_id, m_voxel_tree, m_diag_length,
                   m_classic_threshold, m_fast_threshold, m_half_samples,
                   ofb_entry, evals>>
    /\ UNCHANGED <<brdfvars, pixvars>>

\* The frame is over once no evaluate is in flight; its results are handed
\* over to the host.
EndFrame ==
    /\ main_pc = "render"
    /\ \A t \in Threads : eval_pc[t] = "idle"
    /\ main_pc' = "edit"
    /\ shading_result' = NoResult
    /\ UNCHANGED <<scene, config, rebuilt, ofb_entry, eval_pc, eval_local, heap>>
    /\ UNCHANGED <<brdfvars, pixvars>>

\* ------------------------------------------------------------------------
\* VoxelAOSurfaceShader::evaluate, called by the rendering threads.
\* ------------------------------------------------------------------------

Rat(n, d) == [num |-> n, den |-> d]

\* Distances the normal ray of lines 176-182 can report: a hit at a distance
\* within [tmin, tmax] = [0, fast], or no hit, which leaves clearance = fast.
ClearanceValues(classic, fast) ==
    {classic - 1, classic, (classic + fast) \div 2, fast} \cap 0..fast

\* Occlusion an estimator can return: none, or full.
OcclusionValues == 0..1

\* foundation::linearstep(a, b, x) = saturate((x - a) / (b - a)).
linearstep(a, b, x) ==
    IF x <= a THEN Rat(0, b - a)
    ELSE IF x >= b THEN Rat(b - a, b - a)
    ELSE Rat(x - a, b - a)

\* select_mode with a strict comparison against the fast threshold.
select_mode_strict(clearance, classic, fast) ==
    IF clearance > fast THEN "fast"
    ELSE IF clearance < classic THEN "classic"
    ELSE "blend"

\* select_mode with an inclusive comparison against the classic threshold.
select_mode_inclusive(clearance, classic, fast) ==
    IF clearance >= fast THEN "fast"
    ELSE IF clearance <= classic THEN "classic"
    ELSE "blend"

\* The branch taken at lines 189, 216 and 242.
select_mode(clearance, classic, fast) ==
    IF clearance >= fast THEN "fast"
    ELSE IF clearance < classic THEN "classic"
    ELSE "blend"

\* Lines 208-214, 234-240, 282-288 and 291-295: the colour written.
result_color(mode, k, occlusion) ==
    IF m_enable_diagnostics
        THEN CASE mode = "fast" -> <<Rat(0, 1), Rat(0, 1), Rat(1, 1)>>
               [] mode = "classic" -> <<Rat(1, 1), Rat(1, 1), Rat(0, 1)>>
               [] OTHER -> <<Rat(k.den - k.num, k.den), Rat(0, 1), k>>
        ELSE LET accessibility == Rat(occlusion.den - occlusion.num, occlusion.den)
             IN  <<accessibility, accessibility, accessibility>>

\* A call of compute_fast_ambient_occlusion ("fast") or of
\* compute_ambient_occlusion ("classic") and the occlusion it returned.
Estimate(which, samples, occlusion) ==
    [estimator |-> which, samples |-> samples, returned |-> occlusion]

\* Lines 187-296 for a measured clearance; fo and co are what the fast and
\* the classic estimator return when called.
shade(clearance, fo, co) ==
    LET mode == select_mode(clearance, m_classic_threshold, m_fast_threshold)
    IN  CASE mode = "fast" ->
                [mode |-> "fast",
                 clearance |-> clearance,
                 calls |-> {Estimate("fast", m_samples, fo)},
                 k |-> Rat(0, 0),
                 occlusion |-> Rat(fo, 1),
                 color |-> result_color("fast", Rat(0, 0), Rat(fo, 1))]
          [] mode = "classic" ->
                [mode |-> "classic",
                 clearance |-> clearance,
                 calls |-> {Estimate("classic", m_samples, co)},
                 k |-> Rat(0, 0),
                 occlusion |-> Rat(co, 1),
                 color |-> result_color("classic", Rat(0, 0), Rat(co, 1))]
          [] OTHER ->
                LET k == linearstep(m_classic_threshold, m_fast_threshold,
                                    clearance)
                    occlusion == Rat(k.num * fo + (k.den - k.num) * co, k.den)
                IN  [mode |-> "blend",
                     clearance |-> clearance,
                     calls |-> {Estimate("classic", m_half_samples, co),
                                Estimate("fast", m_half_samples, fo)},
                     k |-> k,
                     occlusion |-> occlusion,
                     color |-> result_color("blend", k, occlusion)]

\* Lines 148-182: the assertions hold, the intersector is traced twice and
\* the clearance is measured.
EvaluateTrace(t) ==
    /\ main_pc = "render"
    /\ eval_pc[t] = "idle"
    /\ m_voxel_tree.id # 0
    /\ m_voxel_tree_intersector.id # 0
    /\ \E c \in ClearanceValues(m_classic_threshold, m_fast_threshold) :
            eval_local' = [eval_local EXCEPT ![t] =
                [tree |-> m_voxel_tree_intersector.tree,
                 fast |-> m_fast_threshold,
                 clearance |-> c]]
    /\ eval_pc' = [eval_pc EXCEPT ![t] = "traced"]
    /\ UNCHANGED <<scene, config, rebuilt, main_pc, ofb_entry, shading_result,
                   heap>>
    /\ UNCHANGED <<brdfvars, pixvars>>

\* Lines 184-296: the occlusion is estimated and the colour written.
\* shading_result holds what the evaluate that returned last has written.
EvaluateShade(t) ==
    /\ eval_pc[t] = "traced"
    /\ \E fo \in OcclusionValues, co \in OcclusionValues :
            shading_result' = shade(eval_local[t].clearance, fo, co)
    /\ eval_pc' = [eval_pc EXCEPT ![t] = "idle"]
    /\ eval_local' = [eval_local EXCEPT ![t] = NoLocals]
    /\ UNCHANGED <<scene, config, rebuilt, main_pc, ofb_entry, heap>>
    /\ UNCHANGED <<brdfvars, pixvars>>

\* The host's main thread: scene edits, on_frame_begin, end of the frame.
MainNext ==
    \/ ChangeGeometry
    \/ ChangeInstances
    \/ OnFrameBeginUnchanged
    \/ OnFrameBeginStoreVersions
    \/ OnFrameBeginBuildTree
    \/ OnFrameBeginThresholds
    \/ OnFrameBeginIntersector
    \/ EndFrame

\* The scene is edited between the frames and every thread renders.
Next ==
    \/ MainNext
    \/ \E t \in Threads : EvaluateTrace(t)
    \/ \E t \in Threads : EvaluateShade(t)

\* The scene is edited between the frames and one thread renders.
NextSingle ==
    \/ MainNext
    \/ EvaluateTrace(1)
    \/ EvaluateShade(1)

\* The scene is not edited and one thread renders.
NextStatic ==
    \/ OnFrameBeginUnchanged
    \/ OnFrameBeginStoreVersions
    \/ OnFrameBeginBuildTree
    \/ OnFrameBeginThresholds
    \/ OnFrameBeginIntersector
    \/ EndFrame
    \/ EvaluateTrace(1)
    \/ EvaluateShade(1)

Spec == Init /\ [][Next]_vars

SpecStatic == InitStatic /\ [][NextStatic]_vars

\* Every value of the type VersionID the model holds.
VersionIDs == {InvalidVersionID} \cup 0..MaxVersion

\* The shader is constructed for a scene whose counters hold any VersionID.
InitAnyScene ==
    /\ AOInitAt(VersionIDs, {<<>>}, {MaxSamples}, {""}, {FALSE})
    /\ BRDFIdle
    /\ AOVIdle

SpecAnyScene == InitAnyScene /\ [][NextSingle]_vars

\* Lines 110-113: new AOVoxelTree throws.  The exception leaves
\* on_frame_begin before reset is called; the frame is given up.
OnFrameBeginBuildFails ==
    /\ main_pc = "ofb_build"
    /\ main_pc' = "edit"
    /\ UNCHANGED <<scene, config, rebuilt, ofb_entry, evals, heap>>
    /\ UNCHANGED <<brdfvars, pixvars>>

\* Lines 110-125: the tree is replaced, then dump_solid_leaves_to_disk
\* throws.  The exception leaves on_frame_begin; the frame is given up.
OnFrameBeginDumpFails ==
    /\ main_pc = "ofb_build"
    /\ m_output_filename # ""
    /\ m_voxel_tree' = NewTree
    /\ heap' = [heap EXCEPT !.trees = @ + 1]
    /\ main_pc' = "edit"
    /\ UNCHANGED <<scene, config, m_last_geometry_version_id,
                   m_last_asm_inst_version_id, m_voxel_tree_intersector,
                   m_diag_length, m_classic_threshold, m_fast_threshold,
                   m_half_samples, ofb_entry, evals>>
    /\ UNCHANGED <<brdfvars, pixvars>>

\* The shader is constructed with the default thresholds, with or without
\* an output file.
InitInterrupt ==
    /\ AOInit({<<>>}, {MaxSamples}, {"", "voxels.obj"}, {FALSE})
    /\ BRDFIdle
    /\ AOVIdle

\* on_frame_begin may be left by an exception.
NextInterrupt ==
    \/ NextSingle
    \/ OnFrameBeginBuildFails
    \/ OnFrameBeginDumpFails

SpecInterrupt == InitInterrupt /\ [][NextInterrupt]_vars

\* ------------------------------------------------------------------------
\* OrenNayarBRDFImpl.  Its methods are functions of their arguments:
\*   modes            the scattering modes asked for
\*   roughness, reflectance, multiplier
\*                    the InputValues (reflectance is a Spectrum)
\*   cos_on, cos_in   dot(outgoing, n) and dot(incoming, n)
\*   direct           the factor of lines 299-301 for the pair of directions
\*   interreflection  the factor of lines 307-311 but square(multiplier)
\*   s                the random number the sampling context supplies
\*   before           what the output value holds before the call
\* ------------------------------------------------------------------------

Spectra == (-1..MaxReflectance) \X (-1..MaxReflectance)

\* The mode masks a caller passes: not empty.
ModeMasks == SUBSET {"Diffuse", "Glossy"} \ {{}}

BRDFInputs ==
    [modes : ModeMasks,
     roughness : {0, MaxRoughness},
     reflectance : Spectra,
     multiplier : -1..MaxMultiplier,
     cos_on : {-MaxCos, 0, MaxCos},
     cos_in : -MaxCos..MaxCos,
     direct : -1..MaxTerm,
     interreflection : 0..1,
     s : 0..(MaxCos - 1),
     before : {0, 7}]

\* ScatteringMode::has_diffuse
has_diffuse(modes) == "Diffuse" \in modes

Uniform(v) == <<v, v>>

\* DirectShadingComponents: the components the BRDF writes and one it
\* leaves alone.
Components(diffuse, glossy, beauty) ==
    [diffuse |-> diffuse, glossy |-> glossy, beauty |-> beauty]

ValueBefore(a) ==
    Components(Uniform(a.before), Uniform(a.before), Uniform(a.before))

\* clamp_low_in_place(value, 0.0f) on one component
clamp_low(v) == IF v < 0 THEN 0 ELSE v

\* Lines 294-313: the direct illumination and interreflection components,
\* clamped.
oren_nayar_qualitative(reflectance, multiplier, direct, interreflection) ==
    [i \in 1..2 |->
        clamp_low(reflectance[i] * (multiplier * direct)
                  + (reflectance[i] * reflectance[i])
                        * (multiplier * multiplier * interreflection))]

\* The Lambertian value without the multiplier.
lambertian_plain(reflectance, multiplier) ==
    [i \in 1..2 |-> reflectance[i]]

\* Lines 208-210 (and 147-148): the Lambertian value.
lambertian(reflectance, multiplier) ==
    [i \in 1..2 |-> reflectance[i] * multiplier]

\* Lines 164-217.  qualitative tells whether oren_nayar_qualitative ran.
evaluate(a) ==
    IF ~has_diffuse(a.modes)
        THEN [called |-> TRUE, pdf |-> 0, value |-> ValueBefore(a),
              qualitative |-> FALSE]
    ELSE IF a.cos_in < 0
        THEN [called |-> TRUE, pdf |-> 0, value |-> ValueBefore(a),
              qualitative |-> FALSE]
    ELSE IF a.roughness # 0
        THEN IF a.cos_on < 0
                THEN [called |-> TRUE, pdf |-> 0,
                      value |-> Components(Uniform(0), Uniform(0), Uniform(0)),
                      qualitative |-> FALSE]
                ELSE LET d == oren_nayar_qualitative(a.reflectance,
                                  a.multiplier, a.direct, a.interreflection)
                     IN  [called |-> TRUE, pdf |-> a.cos_in,
                          value |-> Components(d, Uniform(0), d),
                          qualitative |-> TRUE]
    ELSE LET d == lambertian(a.reflectance, a.multiplier)
         IN  [called |-> TRUE, pdf |-> a.cos_in,
              value |-> Components(d, Uniform(0), d),
              qualitative |-> FALSE]

\* evaluate_pdf testing the outgoing direction whatever the roughness.
evaluate_pdf_both(a) ==
    IF ~has_diffuse(a.modes) THEN [called |-> TRUE, pdf |-> 0]
    ELSE IF a.cos_in < 0 THEN [called |-> TRUE, pdf |-> 0]
    ELSE IF a.cos_on < 0 THEN [called |-> TRUE, pdf |-> 0]
    ELSE [called |-> TRUE, pdf |-> a.cos_in]

\* Lines 219-246.
evaluate_pdf(a) ==
    IF ~has_diffuse(a.modes) THEN [called |-> TRUE, pdf |-> 0]
    ELSE IF a.cos_in < 0 THEN [called |-> TRUE, pdf |-> 0]
    ELSE IF a.roughness # 0 /\ a.cos_on < 0 THEN [called |-> TRUE, pdf |-> 0]
    ELSE [called |-> TRUE, pdf |-> a.cos_in]

\* foundation::sample_hemisphere_cosine: the cosine (wi.y) of the direction
\* drawn for the random number s of [0, 1), here s / MaxCos.
sample_hemisphere_cosine(s) == MaxCos - s

\* The BSDFSample handed to sample.
SampleBefore(a) ==
    [mode |-> "None", probability |-> 0, incoming |-> "unset",
     value |-> ValueBefore(a)]

\* sample taking its random number before it tests the mode mask.
sample_draw_first(a) ==
    IF ~has_diffuse(a.modes)
        THEN [called |-> TRUE, draws |-> 1, sample |-> SampleBefore(a)]
    ELSE
        LET wi_y == sample_hemisphere_cosine(a.s)
            produced(d) ==
                [called |-> TRUE, draws |-> 1,
                 sample |-> [mode |-> "Diffuse",
                             probability |-> wi_y,
                             incoming |-> "sampled",
                             value |-> [ValueBefore(a) EXCEPT
                                            !.diffuse = d, !.beauty = d]]]
        IN  IF a.roughness # 0
                THEN IF a.cos_on < 0 \/ wi_y < 0
                        THEN [called |-> TRUE, draws |-> 1,
                              sample |-> SampleBefore(a)]
                        ELSE produced(oren_nayar_qualitative(a.reflectance,
                                 a.multiplier, a.direct, a.interreflection))
                ELSE produced(lambertian(a.reflectance, a.multiplier))

\* sample storing the density of the outgoing direction.
sample_outgoing_pdf(a) ==
    IF ~has_diffuse(a.modes)
        THEN [called |-> TRUE, draws |-> 0, sample |-> SampleBefore(a)]
    ELSE
        LET wi_y == sample_hemisphere_cosine(a.s)
            produced(d) ==
                [called |-> TRUE, draws |-> 1,
                 sample |-> [mode |-> "Diffuse",
                             probability |-> a.cos_on,
                             incoming |-> "sampled",
                             value |-> [ValueBefore(a) EXCEPT
                                            !.diffuse = d, !.beauty = d]]]
        IN  IF a.roughness # 0
                THEN IF a.cos_on < 0 \/ wi_y < 0
                        THEN [called |-> TRUE, draws |-> 1,
                              sample |-> SampleBefore(a)]
                        ELSE produced(oren_nayar_qualitative(a.reflectance,
                                 a.multiplier, a.direct, a.interreflection))
                ELSE produced(lambertian(a.reflectance, a.multiplier))

\* Lines 98-162.  draws counts the values taken from the sampling context.
sample(a) ==
    IF ~has_diffuse(a.modes)
        THEN [called |-> TRUE, draws |-> 0, sample |-> SampleBefore(a)]
    ELSE
        LET wi_y == sample_hemisphere_cosine(a.s)
            cos_in == wi_y
            produced(d) ==
                [called |-> TRUE, draws |-> 1,
                 sample |-> [mode |-> "Diffuse",
                             probability |-> wi_y,
                             incoming |-> "sampled",
                             value |-> [ValueBefore(a) EXCEPT
                                            !.diffuse = d, !.beauty = d]]]
        IN  IF a.roughness # 0
                THEN IF a.cos_on < 0 \/ cos_in < 0
                        THEN [called |-> TRUE, draws |-> 1,
                              sample |-> SampleBefore(a)]
                        ELSE produced(oren_nayar_qualitative(a.reflectance,
                                 a.multiplier, a.direct, a.interreflection))
                ELSE produced(lambertian(a.reflectance, a.multiplier))

BRDFEvaluate ==
    /\ ~brdf_out.evaluate.called
    /\ brdf_out' = [brdf_out EXCEPT !.evaluate = evaluate(brdf_in)]
    /\ UNCHANGED <<brdf_in, aovars, pixvars>>

BRDFEvaluatePdf ==
    /\ ~brdf_out.evaluate_pdf.called
    /\ brdf_out' = [brdf_out EXCEPT !.evaluate_pdf = evaluate_pdf(brdf_in)]
    /\ UNCHANGED <<brdf_in, aovars, pixvars>>

BRDFSample ==
    /\ ~brdf_out.sample.called
    /\ brdf_out' = [brdf_out EXCEPT !.sample = sample(brdf_in)]
    /\ UNCHANGED <<brdf_in, aovars, pixvars>>

\* The shader is constructed and left alone.
AOIdle ==
    /\ AOInit({<<>>}, {MaxSamples}, {""}, {FALSE})
    /\ scene_diag = 0
    /\ m_diag_length = 0
    /\ m_classic_threshold = 0
    /\ m_fast_threshold = 0
    /\ m_half_samples = 0

\* The three methods are called with one set of arguments.
InitBRDF ==
    /\ AOIdle
    /\ brdf_in \in BRDFInputs
    /\ brdf_out = [evaluate |-> NotCalled, evaluate_pdf |-> NotCalled,
                   sample |-> NotCalled]
    /\ AOVIdle

NextBRDF ==
    \/ BRDFEvaluate
    \/ BRDFEvaluatePdf
    \/ BRDFSample

SpecBRDF == InitBRDF /\ [][NextBRDF]_vars

\* ------------------------------------------------------------------------
\* PixelVariationAOV::post_process_image.
\* ------------------------------------------------------------------------

Abs(n) == IF n < 0 THEN -n ELSE n

RECURSIVE GCD(_, _)
GCD(a, b) == IF b = 0 THEN a ELSE GCD(b, a % b)

\* The float n / d (d # 0): a fraction in lowest terms, denominator positive.
Q(n, d) ==
    LET g == GCD(Abs(n), Abs(d))
        sgn == IF d < 0 THEN -1 ELSE 1
    IN  [num |-> sgn * (n \div g), den |-> sgn * (d \div g)]

QZero == Q(0, 1)
QOne == Q(1, 1)
QAdd(a, b) == Q(a.num * b.den + b.num * a.den, a.den * b.den)
QSub(a, b) == Q(a.num * b.den - b.num * a.den, a.den * b.den)
QMul(a, b) == Q(a.num * b.num, a.den * b.den)
QDiv(a, b) == Q(a.num * b.den, a.den * b.num)
QLess(a, b) == a.num * b.den < b.num * a.den
\* std::max(a, b).
QMax(a, b) == IF QLess(a, b) THEN b ELSE a

\* Lines 76-77.
Blue == <<QZero, QZero, QOne>>
Red == <<QOne, QZero, QZero>>

\* foundation::fit: x remapped linearly from [min_x, max_x] to [min_y, max_y].
fit(x, min_x, max_x, min_y, max_y) ==
    LET k == QDiv(QSub(x, min_x), QSub(max_x, min_x))
    IN  QAdd(QMul(min_y, QSub(QOne, k)), QMul(max_y, k))

\* foundation::lerp on Color3f: a * (1 - t) + b * t, channel by channel.
lerp(a, b, t) ==
    LET channel(i) == QAdd(QMul(a[i], QSub(QOne, t)), QMul(b[i], t))
    IN  <<channel(1), channel(2), channel(3)>>

\* The pixels of the image: ImageWidth columns, two rows.
Rows == 0..1
Pixels == (0..(ImageWidth - 1)) \X Rows

\* The crop windows of the frame: min and max corners, both inside the image.
CropWindows ==
    { [min |-> lo, max |-> hi] :
        <<lo, hi>> \in { w \in Pixels \X Pixels :
                            w[1][1] <= w[2][1] /\ w[1][2] <= w[2][2] } }

\* The pixels the loops of lines 84-86, 97-99 and 112-114 visit.
InWindow(p, crop) ==
    /\ crop.min[1] <= p[1] /\ p[1] <= crop.max[1]
    /\ crop.min[2] <= p[2] /\ p[2] <= crop.max[2]

\* Some values the second and third channel hold before the call.
OtherValues == {0, MaxValue + 1}

\* The variance images for a crop window: any first channel of 0..MaxValue
\* inside the window and MaxValue outside of it (no loop reads it there),
\* the other two channels holding one of OtherValues.
Images(crop) ==
    LET inside == { p \in Pixels : InWindow(p, crop) }
    IN  { [p \in Pixels |->
                <<Q(IF p \in inside THEN first[p] ELSE MaxValue, 1),
                  Q(o, 1), Q(o, 1)>>] :
            <<first, o>> \in [inside -> 0..MaxValue] \X OtherValues }

\* Lines 84-92: the two loops, at pixel (x, y) with the maximum m so far.
RECURSIVE scan(_, _, _, _, _)
scan(img, crop, x, y, m) ==
    IF y > crop.max[2] THEN m
    ELSE IF x > crop.max[1] THEN scan(img, crop, crop.min[1], y + 1, m)
    ELSE scan(img, crop, x + 1, y, QMax(img[<<x, y>>][1], m))

\* The scan whose first row starts one pixel late.
max_variation_late(img, crop) ==
    scan(img, crop, crop.min[1] + 1, crop.min[2], QZero)

\* Lines 82-92: max_variation after the scan.
max_variation(img, crop) ==
    scan(img, crop, crop.min[1], crop.min[2], QZero)

\* post_process_image interpolating from Red to Blue.
post_process_image_swapped(img, crop) ==
    LET mv == max_variation(img, crop)
    IN  [p \in Pixels |->
            IF ~InWindow(p, crop) THEN img[p]
            ELSE IF mv # QZero
                THEN lerp(Red, Blue, fit(img[p][1], QZero, mv, QZero, QOne))
                ELSE Blue]

\* post_process_image leaving an image without variation as it is.
post_process_image_nofill(img, crop) ==
    LET mv == max_variation(img, crop)
    IN  [p \in Pixels |->
            IF ~InWindow(p, crop) THEN img[p]
            ELSE IF mv # QZero
                THEN lerp(Blue, Red, fit(img[p][1], QZero, mv, QZero, QOne))
                ELSE img[p]]

\* Lines 74-120: the image post_process_image leaves.
post_process_image(img, crop) ==
    LET mv == max_variation(img, crop)
    IN  [p \in Pixels |->
            IF ~InWindow(p, crop) THEN img[p]
            ELSE IF mv # QZero
                THEN lerp(Blue, Red, fit(img[p][1], QZero, mv, QZero, QOne))
                ELSE Blue]

PostProcessImage ==
    /\ passes < MaxPasses
    /\ image_before' = m_image
    /\ m_image' = post_process_image(m_image, crop_window)
    /\ passes' = passes + 1
    /\ UNCHANGED <<crop_window, aovars, brdfvars>>

\* Any variance image with any crop window.
InitAOV ==
    /\ AOIdle
    /\ BRDFIdle
    /\ crop_window \in CropWindows
    /\ m_image \in Images(crop_window)
    /\ image_before = m_image
    /\ passes = 0

NextAOV == PostProcessImage

SpecAOV == InitAOV /\ [][NextAOV]_vars

\* ------------------------------------------------------------------------
\* Properties of the voxel shader.
\* ------------------------------------------------------------------------

\* C1 (rebuild gating): a call of on_frame_begin that finds both scene
\* version counters equal to the stored ones returns at once and leaves the
\* tree, the intersector, the stored versions, the thresholds and
\* half_samples as they are; nothing is allocated.
C1_RebuildGating ==
    [][(/\ main_pc = "edit"
        /\ main_pc' # "edit"
        /\ scene_geom = m_last_geometry_version_id
        /\ scene_inst = m_last_asm_inst_version_id)
       => (main_pc' = "render" /\ UNCHANGED <<rebuilt, heap>>)]_vars

\* Two calls in a row have found the versions unchanged.
C1_Witness ==
    /\ main_pc = "render"
    /\ ofb_entry.unchanged_calls = 2
    /\ m_voxel_tree.id # 0

\* C2 (rebuild on change): when on_frame_begin has found at least one of the
\* two counters changed, then once it has returned there is a new tree, a new
\* intersector bound to that tree, and the stored versions are the scene's.
C2_RebuildOnChange ==
    (main_pc = "render" /\ ofb_entry.changed) =>
        /\ m_voxel_tree.id \notin {0, ofb_entry.tree}
        /\ m_voxel_tree.geom = scene_geom
        /\ m_voxel_tree.inst = scene_inst
        /\ m_voxel_tree_intersector.id \notin {0, ofb_entry.isect}
        /\ m_voxel_tree_intersector.tree = m_voxel_tree.id
        /\ m_last_geometry_version_id = scene_geom
        /\ m_last_asm_inst_version_id = scene_inst

\* A rebuild of an existing tree after exactly one counter changed.
C2_Witness ==
    /\ main_pc = "render"
    /\ ofb_entry.changed
    /\ ofb_entry.geom_changed # ofb_entry.inst_changed
    /\ ofb_entry.tree # 0
    /\ m_voxel_tree.id \notin {0, ofb_entry.tree}

\* C3 (no half-rebuilt state): while an evaluate is in flight, the
\* intersector it traced is bound to the shader's current tree, and the
\* thresholds it reads are the ones computed from that tree.
C3_NoHalfRebuilt ==
    \A t \in Threads :
        eval_pc[t] = "traced" =>
            LET diag == m_voxel_tree.max_diag * DiagScale
            IN  /\ m_voxel_tree.id # 0
                /\ eval_local[t].tree = m_voxel_tree.id
                /\ m_voxel_tree_intersector.tree = m_voxel_tree.id
                /\ eval_local[t].fast = m_high_threshold * diag
                /\ m_diag_length = diag
                /\ m_classic_threshold = m_low_threshold * diag
                /\ m_fast_threshold = m_high_threshold * diag

\* Every thread is inside evaluate, after the tree has been rebuilt.
C3_Witness ==
    /\ \A t \in Threads : eval_pc[t] = "traced"
    /\ m_voxel_tree.id >= 2

\* C4 (config fallback): with both thresholds supplied, an invalid pair
\* (one of them negative, or high < low) gives low = 2 and high = 4, and a
\* valid pair is kept.
C4_ConfigFallback ==
    {"low_threshold", "high_threshold"} \subseteq DOMAIN params =>
        LET lo == params["low_threshold"]
            hi == params["high_threshold"]
        IN  /\ (lo < 0 \/ hi < 0 \/ hi < lo) =>
                    (m_low_threshold = 2 /\ m_high_threshold = 4)
            /\ (0 <= lo /\ lo <= hi) =>
                    (m_low_threshold = lo /\ m_high_threshold = hi)

\* A shader constructed with only the low threshold invalid.
C4_Witness ==
    /\ {"low_threshold", "high_threshold"} \subseteq DOMAIN params
    /\ params["low_threshold"] < 0
    /\ params["high_threshold"] >= 0
    /\ m_low_threshold = 2
    /\ m_high_threshold = 4

\* C5 (mode selection): every evaluate takes exactly one mode: fast iff
\* clearance >= fast_threshold, else classic iff clearance <
\* classic_threshold, else blend.  Fast and classic call their estimator
\* with m_samples; blend calls both with m_half_samples and returns
\* k * fast + (1 - k) * classic for
\* k = (clearance - classic_threshold) / (fast_threshold - classic_threshold),
\* both as fractions Rat(numerator, denominator).
C5_ModeSelection ==
    LET r == shading_result
    IN  r.mode # "none" =>
        /\ r.mode \in {"fast", "classic", "blend"}
        /\ r.mode = "fast" <=> r.clearance >= m_fast_threshold
        /\ r.mode = "classic" <=>
                (r.clearance < m_fast_threshold
                    /\ r.clearance < m_classic_threshold)
        /\ r.mode = "fast" =>
                \E o \in OcclusionValues :
                    /\ r.calls = {Estimate("fast", m_samples, o)}
                    /\ r.occlusion = Rat(o, 1)
        /\ r.mode = "classic" =>
                \E o \in OcclusionValues :
                    /\ r.calls = {Estimate("classic", m_samples, o)}
                    /\ r.occlusion = Rat(o, 1)
        /\ r.mode = "blend" =>
                \E fo \in OcclusionValues, co \in OcclusionValues :
                    /\ r.calls = {Estimate("classic", m_half_samples, co),
                                  Estimate("fast", m_half_samples, fo)}
                    /\ r.k = Rat(r.clearance - m_classic_threshold,
                                 m_fast_threshold - m_classic_threshold)
                    /\ r.k.den > 0
                    /\ r.occlusion =
                           Rat(r.k.num * fo + (r.k.den - r.k.num) * co, r.k.den)

\* A blend strictly between the thresholds, of two different estimates.
C5_Witness ==
    /\ shading_result.mode = "blend"
    /\ shading_result.k.num > 0
    /\ shading_result.k.num < shading_result.k.den
    /\ \E c1 \in shading_result.calls, c2 \in shading_result.calls :
            c1.returned # c2.returned
    /\ m_half_samples # m_samples

\* C6 as stated: a clearance equal to fast_threshold selects fast mode, and
\* a clearance equal to classic_threshold selects blend mode with k = 0,
\* for every accepted pair of thresholds.
C6_Original ==
    LET r == shading_result
    IN  r.mode # "none" =>
        /\ r.clearance = m_fast_threshold => r.mode = "fast"
        /\ r.clearance = m_classic_threshold =>
                (r.mode = "blend" /\ r.k.num = 0)

\* C6 (mode boundary values), amended: a clearance equal to fast_threshold
\* selects fast mode; a clearance equal to classic_threshold selects blend
\* mode with k = 0 when classic_threshold < fast_threshold, and fast mode
\* when the two thresholds are equal.
C6_Boundary ==
    LET r == shading_result
    IN  r.mode # "none" =>
        /\ r.clearance = m_fast_threshold => r.mode = "fast"
        /\ (r.clearance = m_classic_threshold
                /\ m_classic_threshold < m_fast_threshold) =>
                (r.mode = "blend" /\ r.k.num = 0 /\ r.k.den > 0)
        /\ (r.clearance = m_classic_threshold
                /\ m_classic_threshold = m_fast_threshold) =>
                r.mode = "fast"

\* An evaluate at the classic threshold, below the fast threshold.
C6_Witness ==
    /\ shading_result.mode = "blend"
    /\ shading_result.clearance = m_classic_threshold
    /\ m_classic_threshold > 0
    /\ shading_result.k.num = 0

\* ------------------------------------------------------------------------
\* Properties of the Oren-Nayar BRDF.
\* ------------------------------------------------------------------------

IsZero(spectrum) == \A i \in 1..2 : spectrum[i] = 0

IsNonNegative(spectrum) == \A i \in 1..2 : spectrum[i] >= 0

\* C7 as stated: evaluate returns a zero density and a value whose every
\* component is 0 whenever diffuse is not asked for or one of the two
\* directions is below the surface, whatever the roughness and whatever the
\* value held before.
C7_ZeroContribution ==
    LET a == brdf_in
        r == brdf_out.evaluate
    IN  (r.called /\ ("Diffuse" \notin a.modes \/ a.cos_in < 0 \/ a.cos_on < 0))
            => /\ r.pdf = 0
               /\ IsZero(r.value.diffuse)
               /\ IsZero(r.value.glossy)
               /\ IsZero(r.value.beauty)

\* C8 (probability consistency): evaluate_pdf returns the density that
\* evaluate returns for the same arguments.
C8_PdfConsistency ==
    (brdf_out.evaluate.called /\ brdf_out.evaluate_pdf.called) =>
        brdf_out.evaluate_pdf.pdf = brdf_out.evaluate.pdf

\* Both were called with zero roughness and the outgoing direction below
\* the surface, and returned a density that is not zero.
C8_Witness ==
    /\ brdf_out.evaluate.called
    /\ brdf_out.evaluate_pdf.called
    /\ brdf_in.roughness = 0
    /\ brdf_in.cos_on < 0
    /\ brdf_out.evaluate_pdf.pdf > 0

\* C9 as stated: the value evaluate writes, and the value sample writes, is
\* non-negative in every component, for every input and in both branches.
C9_NonNegativeValue ==
    LET a == brdf_in
        e == brdf_out.evaluate
        s == brdf_out.sample
    IN  /\ (e.called /\ "Diffuse" \in a.modes /\ a.cos_in >= 0) =>
                (IsNonNegative(e.value.diffuse) /\ IsNonNegative(e.value.beauty))
        /\ (s.called /\ s.sample.mode = "Diffuse") =>
                (IsNonNegative(s.sample.value.diffuse)
                    /\ IsNonNegative(s.sample.value.beauty))

\* C10 (roughness-zero equivalence): with zero roughness, diffuse asked for
\* and both cosines non-negative, evaluate writes diffuse = beauty =
\* reflectance * multiplier (in units of 1/Pi), whatever the directions, and
\* does not compute the qualitative term.
C10_RoughnessZero ==
    LET a == brdf_in
        r == brdf_out.evaluate
    IN  (/\ r.called
         /\ a.roughness = 0
         /\ "Diffuse" \in a.modes
         /\ a.cos_in >= 0
         /\ a.cos_on >= 0)
        => /\ \A i \in 1..2 :
                    /\ r.value.diffuse[i] = a.reflectance[i] * a.multiplier
                    /\ r.value.beauty[i] = a.reflectance[i] * a.multiplier
           /\ ~r.qualitative

\* Such a call, with different cosines and a reflectance that is not grey.
C10_Witness ==
    /\ brdf_out.evaluate.called
    /\ brdf_in.roughness = 0
    /\ "Diffuse" \in brdf_in.modes
    /\ brdf_in.cos_in >= 0
    /\ brdf_in.cos_on >= 0
    /\ brdf_in.cos_in # brdf_in.cos_on
    /\ brdf_in.multiplier > 0
    /\ brdf_in.reflectance[1] > 0
    /\ brdf_in.reflectance[2] = 0
    /\ brdf_out.evaluate.value.diffuse = brdf_out.evaluate.value.beauty
    /\ brdf_out.evaluate.value.diffuse[1] > 0

\* C15 as stated: the stored versions are updated only once the rebuild
\* has completed, so that a rebuild left before the intersector is recreated
\* is done again by the next on_frame_begin: whenever, between two calls,
\* the stored versions are those of the scene (the next call is a no-op),
\* the tree was built for these versions and the intersector for this tree.
C15_VersionsFollowRebuild ==
    (/\ main_pc \in {"edit", "render"}
     /\ m_last_geometry_version_id = scene_geom
     /\ m_last_asm_inst_version_id = scene_inst)
    => /\ m_voxel_tree.id # 0
       /\ m_voxel_tree.geom = scene_geom
       /\ m_voxel_tree.inst = scene_inst
       /\ m_voxel_tree_intersector.tree = m_voxel_tree.id

C17_ThresholdOrdering ==
    /\ 0 <= m_low_threshold
    /\ m_low_threshold <= m_high_threshold
    /\ (m_voxel_tree.id # 0
            /\ main_pc \in {"ofb_intersector", "render", "edit"}) =>
        /\ 0 <= m_classic_threshold
        /\ m_classic_threshold <= m_fast_threshold
        /\ m_half_samples >= 1
        /\ m_half_samples >= m_samples \div 2
        /\ m_half_samples \in {1, m_samples \div 2}
    /\ shading_result.mode = "blend" =>
        /\ m_classic_threshold < m_fast_threshold
        /\ m_classic_threshold <= shading_result.clearance
        /\ shading_result.clearance < m_fast_threshold
        /\ shading_result.k.den > 0
        /\ 0 <= shading_result.k.num
        /\ shading_result.k.num < shading_result.k.den

\* A shader given its thresholds and fewer than two samples has rebuilt and
\* blended strictly between the thresholds.
C17_Witness ==
    /\ DOMAIN params = {"low_threshold", "high_threshold"}
    /\ m_low_threshold = get_param(params, "low_threshold", -1)
    /\ m_samples < 2
    /\ m_half_samples = 1
    /\ m_voxel_tree.id # 0
    /\ shading_result.mode = "blend"
    /\ shading_result.k.num > 0

\* C13: a call of sample whose mode mask has no Diffuse returns with the
\* sample record as it was handed in (incoming direction, value,
\* probability and mode) and has drawn nothing from the sampling context.
C13_NoDiffuseRequested ==
    (brdf_out.sample.called /\ "Diffuse" \notin brdf_in.modes) =>
        /\ brdf_out.sample.draws = 0
        /\ brdf_out.sample.sample.incoming = "unset"
        /\ brdf_out.sample.sample.mode = "None"
        /\ brdf_out.sample.sample.probability = 0
        /\ brdf_out.sample.sample.value =
                Components(Uniform(brdf_in.before), Uniform(brdf_in.before),
                           Uniform(brdf_in.before))

\* sample was called for glossy scattering only, with a value that was not
\* zero, and returned.
C13_Witness ==
    /\ brdf_out.sample.called
    /\ brdf_in.modes = {"Glossy"}
    /\ brdf_in.before # 0
    /\ brdf_out.sample.draws = 0
    /\ brdf_out.sample.sample.value.beauty = Uniform(brdf_in.before)

\* C14: whenever sample produces a sample (mode Diffuse, incoming direction
\* set), the probability it stores is the cosine of the sampled direction
\* over Pi and is greater than zero, whatever random number was drawn: the
\* assertion of line 155 holds.
C14_PositiveDensity ==
    (brdf_out.sample.called /\ brdf_out.sample.sample.mode = "Diffuse") =>
        /\ brdf_out.sample.sample.incoming = "sampled"
        /\ brdf_out.sample.sample.probability = MaxCos - brdf_in.s
        /\ brdf_out.sample.sample.probability > 0

\* sample produced a sample from the largest random number, with the
\* outgoing direction in the tangent plane.
C14_Witness ==
    /\ brdf_out.sample.called
    /\ brdf_out.sample.sample.mode = "Diffuse"
    /\ brdf_in.s = MaxCos - 1
    /\ brdf_in.s > 0
    /\ brdf_in.cos_on = 0
    /\ brdf_out.sample.sample.probability > 0

\* ------------------------------------------------------------------------
\* Properties of the pixel variation AOV.
\* ------------------------------------------------------------------------

\* The pixels of the crop window.
Window == { p \in Pixels : InWindow(p, crop_window) }

\* The largest first-channel value the image img holds in the crop window.
WindowMax(img) ==
    LET values == { img[p][1] : p \in Window }
    IN  CHOOSE m \in values : \A v \in values : ~QLess(m, v)

\* C11: when the largest first-channel value max of the crop window is not
\* zero, a call of post_process_image replaces every pixel of the window,
\* the pixels of its last row and column included, whose first channel
\* held v by (v/max, 0, 1 - v/max): exactly Blue for v = 0, exactly Red for
\* v = max, exactly (1/2, 0, 1/2) for v = max/2.
C11_Normalisation ==
    passes >= 1 =>
        LET max == WindowMax(image_before)
        IN  max # QZero =>
                \A p \in Window :
                    LET v == image_before[p][1]
                    IN  /\ m_image[p] = <<QDiv(v, max), QZero,
                                          QSub(QOne, QDiv(v, max))>>
                        /\ v = QZero => m_image[p] = <<Q(0, 1), Q(0, 1), Q(1, 1)>>
                        /\ v = max => m_image[p] = <<Q(1, 1), Q(0, 1), Q(0, 1)>>
                        /\ QAdd(v, v) = max =>
                               m_image[p] = <<Q(1, 2), Q(0, 1), Q(1, 2)>>

\* One call has mapped a window holding 0, max/2 and max, the pixel of the
\* max corner included.
C11_Witness ==
    /\ passes = 1
    /\ WindowMax(image_before) = Q(MaxValue, 1)
    /\ image_before[crop_window.max][1] # QZero
    /\ \E p, q, r \in Window :
        /\ image_before[p][1] = QZero /\ m_image[p] = Blue
        /\ image_before[q][1] = Q(MaxValue, 1) /\ m_image[q] = Red
        /\ QAdd(image_before[r][1], image_before[r][1]) = Q(MaxValue, 1)
        /\ m_image[r] = <<Q(1, 2), Q(0, 1), Q(1, 2)>>

\* C12: when the largest first-channel value found in the crop window is
\* exactly zero, as when every pixel of the window holds 0, a call of
\* post_process_image leaves Blue (0, 0, 1) in every pixel of the window,
\* whatever the second and third channels held.
C12_ZeroInput ==
    (passes >= 1 /\ WindowMax(image_before) = QZero) =>
        \A p \in Window : m_image[p] = <<Q(0, 1), Q(0, 1), Q(1, 1)>>

\* One call has filled a window of zero variation whose other channels
\* were not those of Blue.
C12_Witness ==
    /\ passes = 1
    /\ \A p \in Window :
        /\ image_before[p][1] = QZero
        /\ image_before[p][2] # QZero
        /\ image_before[p][3] # QOne
        /\ m_image[p] = Blue
    /\ Cardinality(Window) > 1

\* C18: on an image whose first-channel values in the crop window are not
\* negative, a second call of post_process_image leaves the image the first
\* call made (idempotence), and after any call every pixel of the crop
\* window has green = 0, red + blue = 1 and 0 <= red <= 1.
C18_Idempotence ==
    (passes >= 1
        /\ \A p \in Window : ~QLess(image_before[p][1], QZero)) =>
        /\ passes >= 2 => m_image = image_before
        /\ \A p \in Window :
            /\ m_image[p][2] = Q(0, 1)
            /\ QAdd(m_image[p][1], m_image[p][3]) = Q(1, 1)
            /\ ~QLess(m_image[p][1], Q(0, 1))
            /\ ~QLess(Q(1, 1), m_image[p][1])

\* Two calls were made on a window that holds a value strictly between 0
\* and its maximum.
C18_Witness ==
    /\ passes = 2
    /\ m_image = image_before
    /\ \E p \in Window :
        /\ QLess(QZero, m_image[p][1])
        /\ QLess(m_image[p][1], QOne)
        /\ m_image[p][3] = QSub(QOne, m_image[p][1])

====
